---- MODULE Spec2Model ----
(***************************************************************************)
(* Model of the script runner (snowflake_automation/run_all.py with        *)
(* snowflake_automation/utils.py) and of the script fetcher                *)
(* (fetch_scripts.py).  Both are sequential programs; each has its own     *)
(* specification: Spec for the runner, FetchSpec for the fetcher.          *)
(***************************************************************************)
EXTENDS Integers, Sequences, FiniteSets, TLC

VARIABLES
    pc,         \* runner: position of main()
    dir,        \* runner: names present in the scripts directory
    conn,       \* runner: "none" (never created), "open" or "closed"
    closes,     \* runner: number of conn.close() calls
    sql_files,  \* runner: the sorted list main() iterates over
    idx,        \* runner: 1-based position of the next loop iteration
    attempts,   \* runner: calls of execute_sql_file, in order
    execs,      \* runner: calls of conn.execute_string, in order
    out,        \* runner: printed lines
    fpc,        \* fetcher: position of the script
    fmap,       \* fetcher: keys of the `files` mapping, in iteration order
    fidx,       \* fetcher: 1-based position of the next loop iteration
    fattempts,  \* fetcher: loop iterations made, with what happened in each
    disk,       \* fetcher: state of each file of the output directory
    fout        \* fetcher: printed lines

rvars == <<pc, dir, conn, closes, sql_files, idx, attempts, execs, out>>
fvars == <<fpc, fmap, fidx, fattempts, disk, fout>>
vars == <<pc, dir, conn, closes, sql_files, idx, attempts, execs, out,
          fpc, fmap, fidx, fattempts, disk, fout>>

\* ------------------------------------------------------------------ bounds
MaxFiles == 3
MaxStmts == 2

\* ----------------------------------------------------------------- helpers
Range(s) == {s[i] : i \in 1..Len(s)}

RECURSIVE SeqsUpTo(_, _)
SeqsUpTo(S, n) ==
    IF n = 0 THEN {<<>>}
    ELSE LET shorter == SeqsUpTo(S, n - 1)
         IN shorter \cup {Append(s, x) : s \in {t \in shorter : Len(t) = n - 1}, x \in S}

RECURSIVE SubsetsUpTo(_, _)
SubsetsUpTo(S, k) ==
    IF k = 0 THEN {{}}
    ELSE LET smaller == SubsetsUpTo(S, k - 1)
         IN smaller \cup {s \cup {x} : s \in smaller, x \in S}

\* ------------------------------------------------- file names and ordering
\* The characters that occur in the modelled names, in code point order
\* ('.' < '0' < '1' < '2' < 'l' < 'p' < 'q' < 's' < 'y'), which is the order
\* Python compares str by.
Alphabet == <<".", "0", "1", "2", "l", "p", "q", "s", "y">>

Ord(c) == CHOOSE i \in 1..Len(Alphabet) : Alphabet[i] = c

\* a < b for two str
RECURSIVE StrLess(_, _)
StrLess(a, b) ==
    IF a = <<>> THEN b # <<>>
    ELSE IF b = <<>> THEN FALSE
    ELSE IF Head(a) = Head(b) THEN StrLess(Tail(a), Tail(b))
    ELSE Ord(Head(a)) < Ord(Head(b))

SqlSuffix == <<".", "s", "q", "l">>
PySuffix == <<".", "p", "y">>

Stems == {<<>>, <<"1">>, <<"1", "0">>, <<"2">>, <<"0", "1">>}

\* Every name a scripts directory of the model may hold: "1.sql", "10.sql",
\* "2.sql", "01.sql", the hidden ".sql", and the same stems with ".py".
Names == {stem \o suffix : stem \in Stems, suffix \in {SqlSuffix, PySuffix}}

EndsWith(name, suffix) ==
    /\ Len(name) >= Len(suffix)
    /\ SubSeq(name, Len(name) - Len(suffix) + 1, Len(name)) = suffix

IsHidden(name) == name # <<>> /\ Head(name) = "."

\* glob.glob(os.path.join(scripts_dir, '*.sql')): the entries of the directory
\* that match the pattern; a pattern that does not start with a dot never
\* matches a name that does.
glob(d) == {name \in d : ~IsHidden(name) /\ EndsWith(name, SqlSuffix)}

\* variant of sorted: descending order
sorted_reverse(S) ==
    LET RECURSIVE desc(_)
        desc(T) ==
            IF T = {} THEN <<>>
            ELSE LET m == CHOOSE x \in T : \A y \in T \ {x} : StrLess(y, x)
                 IN <<m>> \o desc(T \ {m})
    IN desc(S)

\* sorted(...): ascending by str comparison.  All paths share the directory
\* prefix, so the order of the paths is the order of the file names.
sorted(S) ==
    LET RECURSIVE asc(_)
        asc(T) ==
            IF T = {} THEN <<>>
            ELSE LET m == CHOOSE x \in T : \A y \in T \ {x} : StrLess(x, y)
                 IN <<m>> \o asc(T \ {m})
    IN asc(S)

\* ------------------------------------------------------------ printed lines
NoFile == <<>>
Line(kind, file, qid) == [kind |-> kind, file |-> file, qid |-> qid]

Starting == Line("starting", NoFile, 0)
Connected == Line("connected", NoFile, 0)
ConnectFailed == Line("connect_failed", NoFile, 0)
NoScripts == Line("no_scripts", NoFile, 0)
Running(f) == Line("running", f, 0)
Executing(f) == Line("executing", f, 0)
Success(f, qid) == Line("success", f, qid)
ErrorFile(f) == Line("error_file", f, 0)
ErrorDetails(f) == Line("error_details", f, 0)
FailedExecute(f) == Line("failed_execute", f, 0)
Complete == Line("complete", NoFile, 0)

\* ---------------------------------------------------------------- utils.py
\* The text of a script file, as the remote side sees it: one entry per
\* statement, "ok" if the warehouse accepts it and "bad" if it rejects it.
Contents == SeqsUpTo({"ok", "bad"}, MaxStmts)

FirstBad(content) ==
    IF \E i \in 1..Len(content) : content[i] = "bad"
    THEN CHOOSE i \in 1..Len(content) :
            content[i] = "bad" /\ \A j \in 1..(i - 1) : content[j] = "ok"
    ELSE 0

\* conn.execute_string(sql_content): the statements run in textual order; the
\* first one that fails raises, and the cursors of the earlier ones are lost
\* with the exception.  Otherwise the list of cursors is returned, one for
\* each statement.
execute_string(content) ==
    LET bad == FirstBad(content)
    IN IF bad = 0
       THEN [raised |-> FALSE, ran_ok |-> Len(content),
             cursors |-> [k \in 1..Len(content) |-> [sfqid |-> k]]]
       ELSE [raised |-> TRUE, ran_ok |-> bad - 1, cursors |-> <<>>]

\* execute_sql_file(conn, file_path).  `readable` says whether open()/read()
\* succeed; they are outside the function's try, so their exception leaves
\* the function.  An exception of execute_string is caught inside and
\* reported in two lines.  The result holds the lines printed, the
\* execute_string call made (if any) and whether the function raised.
execute_sql_file(c, f, readable, content, marked) ==
    IF ~readable
    THEN [out |-> <<Executing(f)>>, execs |-> <<>>, raised |-> TRUE]
    ELSE LET r == execute_string(content)
         IN [out |-> <<Executing(f)>> \o
                     (IF r.raised
                      THEN <<ErrorFile(f), ErrorDetails(f)>>
                      ELSE [k \in 1..Len(r.cursors) |-> Success(f, r.cursors[k].sfqid)]),
             execs |-> <<[file |-> f, conn |-> c, after_marker |-> marked,
                          ran_ok |-> r.ran_ok, raised |-> r.raised]>>,
             raised |-> FALSE]

\* get_connection(): the connection snowflake.connector.connect() returns, or
\* an exception, which leaves main()'s `conn` unbound ("none")
get_connection(ok) == IF ok THEN "open" ELSE "none"

\* -------------------------------------------------------------- run_all.py
\* variant of AfterConnect: the except branch does not return
AfterConnect_continue(ok) == "discover"

\* where main() goes after the try around get_connection(): on to the
\* discovery, or out of main() by the `return` of the except branch
AfterConnect(ok) == IF ok THEN "discover" ELSE "returned"

\* variant of NoFiles: the empty list is not noticed
NoFiles_unchecked(found) == FALSE

\* `if not sql_files:`
NoFiles(found) == Len(found) = 0

\* variant of LoopExit: the loop is left after its first iteration
LoopExit_first(i, n) == i > 1

\* the for loop is over when every element of sql_files has been visited
LoopExit(i, n) == i > n

\* variant of NextIndex: the except branch's `break` is active
NextIndex_break(i, n, r) == IF r.raised THEN n + 1 ELSE i + 1

\* variant of NextIndex: the loop stops at any failure, raised or reported
NextIndex_stop(i, n, r) ==
    IF r.raised \/ (\E k \in 1..Len(r.execs) : r.execs[k].raised) THEN n + 1 ELSE i + 1

\* The loop position after one iteration whose execute_sql_file call gave r:
\* the except branch only prints (its `break` is commented out), so the loop
\* goes on to the next file either way.
NextIndex(i, n, r) == i + 1

RunnerInit ==
    /\ pc = "connect"
    /\ dir \in SubsetsUpTo(Names, MaxFiles)
    /\ conn = "none"
    /\ closes = 0
    /\ sql_files = <<>>
    /\ idx = 1
    /\ attempts = <<>>
    /\ execs = <<>>
    /\ out = <<Starting>>

\* get_connection() inside main()'s try: it returns a connection, or raises
\* and main() prints the failure and returns.
Connect ==
    /\ pc = "connect"
    /\ \E ok \in BOOLEAN :
        /\ conn' = get_connection(ok)
        /\ out' = Append(out, IF ok THEN Connected ELSE ConnectFailed)
        /\ pc' = AfterConnect(ok)
    /\ UNCHANGED <<dir, closes, sql_files, idx, attempts, execs>>

\* sql_files = sorted(glob.glob(...)), then the early return on an empty list
Discover ==
    /\ pc = "discover"
    /\ LET found == sorted(glob(dir))
       IN /\ sql_files' = found
          /\ IF NoFiles(found)
             THEN /\ out' = Append(out, NoScripts)
                  /\ pc' = "returned"
             ELSE /\ out' = out
                  /\ pc' = "loop"
    /\ UNCHANGED <<dir, conn, closes, idx, attempts, execs>>

\* one iteration of `for sql_file in sql_files:`
RunFile ==
    /\ pc = "loop"
    /\ ~LoopExit(idx, Len(sql_files))
    /\ \E readable \in BOOLEAN :
        \E content \in (IF readable THEN Contents ELSE {<<>>}) :
            LET f == sql_files[idx]
                r == execute_sql_file(conn, f, readable, content, Complete \in Range(out))
            IN /\ out' = out \o <<Running(f)>> \o r.out \o
                         (IF r.raised THEN <<FailedExecute(f)>> ELSE <<>>)
               /\ attempts' = Append(attempts, [file |-> f, read |-> readable])
               /\ execs' = execs \o r.execs
               /\ idx' = NextIndex(idx, Len(sql_files), r)
    /\ UNCHANGED <<pc, dir, conn, closes, sql_files>>

\* variant of Finish: the completion line and close() inside the loop
Finish_misplaced ==
    /\ pc = "loop"
    /\ conn = "open"
    /\ out' = Append(out, Complete)
    /\ conn' = "closed"
    /\ closes' = closes + 1
    /\ UNCHANGED <<pc, dir, sql_files, idx, attempts, execs>>

\* after the loop: print("Automation complete."), conn.close(), end of main()
Finish ==
    /\ pc = "loop"
    /\ LoopExit(idx, Len(sql_files))
    /\ out' = Append(out, Complete)
    /\ conn' = "closed"
    /\ closes' = closes + 1
    /\ pc' = "returned"
    /\ UNCHANGED <<dir, sql_files, idx, attempts, execs>>

\* ----------------------------------------------------------- fetch_scripts.py
\* the keys of the `files` dict, in insertion order (the order items() yields)
files == <<"00_setup.sql", "01_vignette_1.sql", "02_vignette_2.sql",
           "03_vignette_3.sql", "04_vignette_4.sql", "05_vignette_5.sql",
           "06_streamlit_app.py">>

\* What can happen inside the try of one iteration, by the statement that
\* raises: urlopen(url), response.read().decode('utf-8'), open(path, 'w'),
\* f.write(content); or none does.
Outcomes == {"ok", "urlopen_raises", "decode_raises", "open_raises", "write_raises"}

FDownloading(key) == Line("downloading", key, 0)
FSaved(key) == Line("saved", key, 0)
FFailed(key) == Line("failed_download", key, 0)

\* the lines one iteration prints
FetchLines(key, outcome) ==
    <<FDownloading(key)>> \o
    (IF outcome = "ok" THEN <<FSaved(key)>> ELSE <<FFailed(key)>>)

\* The file <SCRIPTS_DIR>/<filename> after one iteration: open(path, 'w')
\* creates or truncates it, f.write() completes it; an exception before
\* open() has succeeded leaves it as it was.
DiskAfter(old, outcome) ==
    CASE outcome = "ok" -> "complete"
      [] outcome = "write_raises" -> "truncated"
      [] OTHER -> old

\* variant of FetchNextIndex: a failure leaves the loop
FetchNextIndex_raise(i, n, outcome) == IF outcome = "ok" THEN i + 1 ELSE n + 1

\* `except Exception` only prints: the loop goes on to the next item
FetchNextIndex(i, n, outcome) == i + 1

\* The mapping the loop runs over: the source's dict, or a prefix of it (a
\* mapping of M entries, 0 <= M <= 7).
FetcherInit ==
    /\ fpc = "makedirs"
    /\ fmap \in {SubSeq(files, 1, m) : m \in 0..Len(files)}
    /\ fidx = 1
    /\ fattempts = <<>>
    /\ disk = [k \in Range(files) |-> "absent"]
    /\ fout = <<>>

\* os.makedirs(SCRIPTS_DIR, exist_ok=True): outside any try, so a failure
\* ends the script with the exception
FetchMakedirs ==
    /\ fpc = "makedirs"
    /\ \E ok \in BOOLEAN : fpc' = IF ok THEN "loop" ELSE "crashed"
    /\ UNCHANGED <<fmap, fidx, fattempts, disk, fout>>

\* one iteration of `for filename, url in files.items():`
FetchEntry ==
    /\ fpc = "loop"
    /\ fidx <= Len(fmap)
    /\ \E outcome \in Outcomes :
        LET key == fmap[fidx]
        IN /\ fout' = fout \o FetchLines(key, outcome)
           /\ disk' = [disk EXCEPT ![key] = DiskAfter(@, outcome)]
           /\ fattempts' = Append(fattempts, [key |-> key, outcome |-> outcome])
           /\ fidx' = FetchNextIndex(fidx, Len(fmap), outcome)
    /\ UNCHANGED <<fpc, fmap>>

\* the loop is exhausted: the script ends
FetchEnd ==
    /\ fpc = "loop"
    /\ fidx > Len(fmap)
    /\ fpc' = "done"
    /\ UNCHANGED <<fmap, fidx, fattempts, disk, fout>>

\* ----------------------------------------------------------- specifications
\* the program that is not running, in each specification
FetcherIdle ==
    /\ fpc = "makedirs"
    /\ fmap = <<>>
    /\ fidx = 1
    /\ fattempts = <<>>
    /\ disk = [k \in Range(files) |-> "absent"]
    /\ fout = <<>>

RunnerIdle ==
    /\ pc = "connect"
    /\ dir = {}
    /\ conn = "none"
    /\ closes = 0
    /\ sql_files = <<>>
    /\ idx = 1
    /\ attempts = <<>>
    /\ execs = <<>>
    /\ out = <<>>

Init == RunnerInit /\ FetcherIdle

Next ==
    \/ Connect /\ UNCHANGED fvars
    \/ Discover /\ UNCHANGED fvars
    \/ RunFile /\ UNCHANGED fvars
    \/ Finish /\ UNCHANGED fvars

Spec == Init /\ [][Next]_vars

FetchInit == FetcherInit /\ RunnerIdle

FetchNext ==
    \/ FetchMakedirs /\ UNCHANGED rvars
    \/ FetchEntry /\ UNCHANGED rvars
    \/ FetchEnd /\ UNCHANGED rvars

FetchSpec == FetchInit /\ [][FetchNext]_vars

\* ------------------------------------------------------------------ claims
AttemptFiles == [i \in 1..Len(attempts) |-> attempts[i].file]
ExecFiles == [i \in 1..Len(execs) |-> execs[i].file]
ReadFiles ==
    LET wasRead(a) == a.read
        read == SelectSeq(attempts, wasRead)
    IN [i \in 1..Len(read) |-> read[i].file]
Ascending(s) == \A i, j \in 1..Len(s) : i < j => StrLess(s[i], s[j])
LinesOf(kind, f) == Cardinality({i \in 1..Len(out) : out[i].kind = kind /\ out[i].file = f})
Marked == Complete \in Range(out)
Ended == pc = "returned"
EstablishedRun == Ended /\ conn # "none"

\* C1 as stated: in a run with a connection and N >= 1 files matching *.sql,
\* conn.execute_string is called exactly N times, once per file, in strictly
\* ascending file name order.
C1_ExecutePerFile ==
    (EstablishedRun /\ glob(dir) # {}) =>
        /\ Len(execs) = Cardinality(glob(dir))
        /\ Range(ExecFiles) = glob(dir)
        /\ Ascending(ExecFiles)

\* C1 amended: in a run with a connection and N >= 1 files matching *.sql,
\* execute_sql_file is called exactly N times, once per file, in strictly
\* ascending file name order, and conn.execute_string is called exactly once
\* for each file whose content could be read, in that order, and never for a
\* file whose read failed.
C1_AttemptPerFile ==
    (EstablishedRun /\ glob(dir) # {}) =>
        /\ Len(attempts) = Cardinality(glob(dir))
        /\ Range(AttemptFiles) = glob(dir)
        /\ Ascending(AttemptFiles)
        /\ ExecFiles = ReadFiles

C1_Witness ==
    /\ EstablishedRun
    /\ Cardinality(glob(dir)) = 2
    /\ \E f \in dir : f \notin glob(dir)
    /\ Len(attempts) = 2
    /\ ~attempts[1].read
    /\ Len(execs) = 1

\* C2: a failure on one file never stops the batch.  While the loop runs the
\* files attempted are exactly the first ones of the sorted list, whatever
\* failed among them, the loop stands at the file after them, main() returns
\* only when every file has been attempted, and every attempted file that
\* could be read was submitted to conn.execute_string.
C2_Continuation ==
    (pc \in {"loop", "returned"} /\ sql_files # <<>>) =>
        /\ AttemptFiles = SubSeq(sql_files, 1, Len(attempts))
        /\ pc = "loop" => idx = Len(attempts) + 1
        /\ pc = "returned" => Len(attempts) = Len(sql_files)
        /\ ExecFiles = ReadFiles

C2_Witness ==
    /\ Ended
    /\ Len(sql_files) = 3
    /\ Len(execs) = 3
    /\ execs[1].raised
    /\ ~execs[2].raised
    /\ execs[3].raised

\* C3: whenever main() has returned and a connection was created, that
\* connection has been closed.
C3_ReleasedOnEveryReturn == EstablishedRun => conn = "closed"

\* C4: with a connection and at least one discovered file, close() is called
\* exactly once, and only after every discovered file has been processed,
\* however many files failed.
C4_ClosedOnce ==
    /\ closes <= 1
    /\ closes = 1 => (Ended /\ conn = "closed" /\ Len(attempts) = Len(sql_files))
    /\ (EstablishedRun /\ sql_files # <<>>) => closes = 1

C4_Witness ==
    /\ Ended
    /\ closes = 1
    /\ Len(sql_files) = 3
    /\ Len(attempts) = 3
    /\ ~attempts[1].read
    /\ Len(execs) = 2
    /\ execs[1].raised
    /\ execs[2].raised

\* C5: once discovery has found no file matching *.sql, main() has returned
\* normally having printed the "no scripts" line, and execute_sql_file and
\* conn.execute_string were never called.
C5_EmptyDirectory ==
    (conn # "none" /\ pc \notin {"connect", "discover"} /\ glob(dir) = {}) =>
        /\ Ended
        /\ NoScripts \in Range(out)
        /\ attempts = <<>>
        /\ execs = <<>>

C5_Witness ==
    /\ Ended
    /\ conn # "none"
    /\ glob(dir) = {}
    /\ Cardinality(dir) = 2
    /\ execs = <<>>

\* C6: when get_connection() fails, main() returns at once: no file is
\* discovered or read, conn.execute_string and close() are never called, and
\* the completion line is not printed.
C6_ConnectFailureAborts ==
    ConnectFailed \in Range(out) =>
        /\ Ended
        /\ conn = "none"
        /\ sql_files = <<>>
        /\ attempts = <<>>
        /\ execs = <<>>
        /\ closes = 0
        /\ ~Marked

C6_Witness ==
    /\ Ended
    /\ ConnectFailed \in Range(out)
    /\ Cardinality(glob(dir)) = 2

\* C8: for every file submitted to conn.execute_string, the runner has
\* printed one success line per statement that executed successfully, and
\* one failure report exactly if the file failed.
C8_LinePerStatement ==
    Ended =>
        \A i \in 1..Len(execs) :
            /\ LinesOf("success", execs[i].file) = execs[i].ran_ok
            /\ LinesOf("error_file", execs[i].file) = (IF execs[i].raised THEN 1 ELSE 0)

\* C9 as stated: an unreadable script file aborts the run at that file: no
\* later file is attempted and the completion line is not printed.
C9_ReadErrorFatal ==
    \A i \in 1..Len(attempts) :
        ~attempts[i].read => (Len(attempts) = i /\ ~Marked /\ ~Ended)

\* C9 amended: an unreadable script file is caught by main()'s per-file
\* handler: it is reported by one "Failed to execute" line, its content is
\* never submitted to conn.execute_string, the loop goes on to the later
\* files, and main() ends by printing the completion line and closing the
\* connection.
C9_ReadErrorCaught ==
    \A i \in 1..Len(attempts) :
        ~attempts[i].read =>
            /\ LinesOf("failed_execute", attempts[i].file) = 1
            /\ attempts[i].file \notin Range(ExecFiles)
            /\ pc \in {"loop", "returned"}
            /\ pc = "loop" => idx = Len(attempts) + 1
            /\ Ended => (Len(attempts) = Len(sql_files) /\ Marked /\ conn = "closed")

C9_Witness ==
    /\ Ended
    /\ Len(attempts) = 3
    /\ ~attempts[1].read
    /\ attempts[2].read
    /\ attempts[3].read
    /\ Len(execs) = 2
    /\ Marked

\* C10: every conn.execute_string call is made on a connection that was
\* established and not yet closed, and before the completion line; once the
\* completion line is printed main() has returned.
C10_ExecuteWhileOpen ==
    /\ \A i \in 1..Len(execs) : execs[i].conn = "open" /\ ~execs[i].after_marker
    /\ execs # <<>> => conn # "none"
    /\ Marked => Ended

C10_Witness ==
    /\ Ended
    /\ Marked
    /\ Len(execs) = 3
    /\ \A i \in 1..Len(execs) : ~execs[i].raised

FetchKeys == [i \in 1..Len(fattempts) |-> fattempts[i].key]
FetchLinesOf(kind) == Cardinality({i \in 1..Len(fout) : fout[i].kind = kind})
FailuresIn(kinds) == Cardinality({i \in 1..Len(fattempts) : fattempts[i].outcome \in kinds})

\* C7 as stated: for a mapping of M entries of which F fail to fetch
\* (urlopen or reading the response raises), the loop attempts each entry
\* exactly once and at its end the output directory holds exactly M-F files
\* of the mapping and exactly F error lines were printed.
C7_FetchFailuresOnly ==
    fpc = "done" =>
        LET F == FailuresIn({"urlopen_raises", "decode_raises"})
        IN /\ FetchKeys = fmap
           /\ Cardinality({k \in Range(files) : disk[k] # "absent"}) = Len(fmap) - F
           /\ FetchLinesOf("failed_download") = F

\* C7 amended: for a mapping of M entries of which F fail at any statement
\* of the iteration's try (fetching, decoding, opening or writing the local
\* file), the loop attempts the entries in order, each exactly once, no
\* failure ends it or leaves it, and at its end exactly M-F files are
\* completely written and reported saved and exactly F error lines are
\* printed.
C7_FetchBatch ==
    /\ fpc \in {"loop", "done"} =>
        /\ FetchKeys = SubSeq(fmap, 1, Len(fattempts))
        /\ fidx = Len(fattempts) + 1
    /\ fattempts # <<>> => fpc \in {"loop", "done"}
    /\ fpc = "done" =>
        LET F == FailuresIn(Outcomes \ {"ok"})
        IN /\ Len(fattempts) = Len(fmap)
           /\ Cardinality({k \in Range(files) : disk[k] = "complete"}) = Len(fmap) - F
           /\ FetchLinesOf("saved") = Len(fmap) - F
           /\ FetchLinesOf("failed_download") = F
           /\ FetchLinesOf("downloading") = Len(fmap)

C7_Witness ==
    /\ fpc = "done"
    /\ Len(fmap) = 3
    /\ fattempts[1].outcome = "ok"
    /\ fattempts[2].outcome = "urlopen_raises"
    /\ fattempts[3].outcome = "write_raises"
    /\ FetchLinesOf("saved") = 1
    /\ FetchLinesOf("failed_download") = 2
    /\ disk[fmap[3]] = "truncated"

====
